---- MODULE Spec2Model ----
(***************************************************************************)
(* Model of src/app.py: the Streamlit front end of the HR sentiment        *)
(* analysis application.  One script run (main) per user interaction; the  *)
(* analyzer is created by initialize_analyzer, whose result is memoised by *)
(* st.cache_resource; every browser session has its own st.session_state.  *)
(* The analyzer class itself (main.HRAnalyzer) is not part of src/ and is   *)
(* modelled from the specification's interface description.                *)
(***************************************************************************)
EXTENDS Integers, Sequences, FiniteSets, TLC

VARIABLES
    cache,      \* the st.cache_resource entry of initialize_analyzer
    heap,       \* HRAnalyzer instances created so far: id -> [data]
    sess,       \* st.session_state of every browser session
    screen,     \* what the AI tab of every session currently shows
    run         \* the most recent script run and what it rendered

vars == <<cache, heap, sess, screen, run>>

(***************************************************************************)
(* Bounds of the model.                                                    *)
(***************************************************************************)
NumSessions == 2
MaxRecords == 23
MaxFrags == 2

\* analyzer.data[:21] in build_context
ContextLimit == 21

Sessions == 1..NumSessions

(***************************************************************************)
(* Python values: None, str.                                               *)
(***************************************************************************)
PyNone == [kind |-> "None"]
PyStr(s) == [kind |-> "str", s |-> s]
\* bool(v) for None and str values
Truthy(v) == v.kind = "str" /\ v.s # ""

(***************************************************************************)
(* Text as a sequence of characters; str.lower() and the `in` operator.    *)
(***************************************************************************)
UpperChars == <<"A","B","C","D","E","F","G","H","I","J","K","L","M",
                "N","O","P","Q","R","S","T","U","V","W","X","Y","Z">>
LowerChars == <<"a","b","c","d","e","f","g","h","i","j","k","l","m",
                "n","o","p","q","r","s","t","u","v","w","x","y","z">>

\* the lower-case form of each upper-case letter
ToLower ==
    [c \in {UpperChars[i] : i \in DOMAIN UpperChars} |->
        LowerChars[CHOOSE i \in DOMAIN UpperChars : UpperChars[i] = c]]

LowerChar(c) == IF c \in DOMAIN ToLower THEN ToLower[c] ELSE c

SameText(t) == t
lower(t) == [i \in DOMAIN t |-> LowerChar(t[i])]

\* kw in text
Contains(kw, text) ==
    \E off \in 0..(Len(text) - Len(kw)) :
        SubSeq(text, off + 1, off + Len(kw)) = kw

(***************************************************************************)
(* Employee records and the record sets load_data may deliver.             *)
(***************************************************************************)
QuadrantNames == <<"Champion", "Concerned but active",
                   "Potentially Isolated", "At Risk">>
RoleNames == <<"Engineer", "Manager", "Analyst">>
EmployeeNames == <<"Asha", "Bo", "Chen", "Dana", "Eli">>

Employee(i, p) ==
    [id |-> i,
     employee_name |-> EmployeeNames[(i % Len(EmployeeNames)) + 1],
     role |-> RoleNames[(i % Len(RoleNames)) + 1],
     sentiment_score |-> (i * 37 * p) % 101,
     quadrant |-> QuadrantNames[((i * p) % Len(QuadrantNames)) + 1],
     content |-> "feedback"]

DataSet(n, p) == [i \in 1..n |-> Employee(i, p)]

\* p = 1: all four quadrants; p = 2: no "At Risk"; p = 4: only "Champion"
Patterns == {1, 2, 4}
DataLens == (1..3) \cup ((ContextLimit - 1)..MaxRecords)
AllData == {DataSet(n, p) : n \in DataLens, p \in Patterns}
SmallData == {DataSet(1, 1), DataSet(2, 1), DataSet(2, 2)}
TinyData == {DataSet(3, 1), DataSet(2, 2)}

(***************************************************************************)
(* The analyzer collaborator (main.HRAnalyzer), from its interface.        *)
(***************************************************************************)
RECURSIVE SumScores(_)
SumScores(d) ==
    IF d = <<>> THEN 0 ELSE d[1].sentiment_score + SumScores(Tail(d))

Mean(d) == IF d = <<>> THEN 0 ELSE SumScores(d) \div Len(d)

get_average_sentiment(data) == Mean(data)

get_quadrant_distribution(data) ==
    [q \in {data[i].quadrant : i \in DOMAIN data} |->
        Cardinality({i \in DOMAIN data : data[i].quadrant = q})]

get_analytics_summary(data) ==
    [total_employees |-> Len(data),
     average_sentiment |-> Mean(data),
     quadrant_distribution |-> get_quadrant_distribution(data),
     sentiment_by_role |->
        [r \in {data[i].role : i \in DOMAIN data} |->
            Mean(SelectSeq(data, LAMBDA e : e.role = r))]]

\* dict.get(key, default)
DictGet(d, k, default) == IF k \in DOMAIN d THEN d[k] ELSE default

\* What one call of load_data() can do: raise, return False (failure or no
\* rows), or return True with a non-empty record set.
LoadOutcomes(D) ==
    {[kind |-> "raise", rows |-> <<>>], [kind |-> "false", rows |-> <<>>]}
    \cup {[kind |-> "true", rows |-> d] : d \in D}

\* analyzer.data after load_data(): replaced only on success
load_data(old, outcome) == IF outcome.kind = "true" THEN outcome.rows ELSE old

\* What one call of analyze_with_ai() can do: raise, or return a response.
AIOutcomes(R) ==
    {[raises |-> TRUE, fault |-> "TransportError", response |-> PyNone]}
    \cup {[raises |-> FALSE, fault |-> "", response |-> r] : r \in R}

(***************************************************************************)
(* Response values of the AI client.                                       *)
(***************************************************************************)
Part(has_text, text) == [has_text |-> has_text, text |-> text]
Candidate(content_ok, parts) == [content_ok |-> content_ok, parts |-> parts]
Obj(truthy, has_candidates, candidates, text_attr) ==
    [kind |-> "obj", truthy |-> truthy, has_candidates |-> has_candidates,
     candidates |-> candidates, text_attr |-> text_attr, text |-> "direct"]

CandidateLists ==
    {<<>>,
     <<Candidate(FALSE, <<>>)>>,
     <<Candidate(TRUE, <<>>)>>,
     <<Candidate(TRUE, <<Part(FALSE, "")>>)>>,
     <<Candidate(TRUE, <<Part(TRUE, "leaf")>>)>>,
     <<Candidate(TRUE, <<Part(TRUE, "")>>)>>,
     <<Candidate(TRUE, <<Part(TRUE, "leaf"), Part(TRUE, "second")>>),
       Candidate(TRUE, <<Part(TRUE, "other")>>)>>}

TextAttrs == {"missing", "value", "raises"}

AllResponses ==
    {PyNone, PyStr(""), PyStr("answer")}
    \cup {Obj(TRUE, TRUE, c, t) : c \in CandidateLists, t \in TextAttrs}
    \cup {Obj(b, FALSE, <<>>, t) : b \in BOOLEAN, t \in TextAttrs}

SmallResponses ==
    {PyNone, PyStr("answer"),
     Obj(TRUE, TRUE, <<Candidate(TRUE, <<Part(TRUE, "leaf")>>)>>, "missing"),
     Obj(TRUE, FALSE, <<>>, "missing")}

TinyResponses == {PyStr("answer")}

\* `not response`
Falsy(response) ==
    \/ response.kind = "None"
    \/ response.kind = "str" /\ response.s = ""
    \/ response.kind = "obj" /\ ~response.truthy

\* response.candidates[0].content.parts[0].text
last_part_text(candidates) ==
    candidates[Len(candidates)].parts[Len(candidates[Len(candidates)].parts)].text
first_part_text(candidates) == candidates[1].parts[1].text

extract_ai_text(response) ==
    IF Falsy(response) THEN PyNone
    ELSE IF response.kind = "str" THEN response
    ELSE IF response.has_candidates /\ response.candidates # <<>>
            /\ ~response.candidates[1].content_ok
         \* candidates[0].content.parts raises; caught by the except clause
         THEN PyStr("Extraction failed: " \o "AttributeError")
    ELSE IF response.has_candidates /\ response.candidates # <<>>
            /\ response.candidates[1].parts # <<>>
            /\ response.candidates[1].parts[1].has_text
         THEN PyStr(first_part_text(response.candidates))
    ELSE IF response.text_attr = "raises"
         \* hasattr() lets the property's exception through; caught as above
         THEN PyStr("Extraction failed: " \o "ValueError")
    ELSE IF response.text_attr = "value" THEN PyStr(response.text)
    ELSE PyNone

(***************************************************************************)
(* Helper functions of app.py.                                             *)
(***************************************************************************)
Min(a, b) == IF a < b THEN a ELSE b

\* `analyzer and analyzer.data`; analyzer 0 is None
HasAnalyzer(h, analyzer) == analyzer # 0
HasData(h, analyzer) == analyzer # 0 /\ h[analyzer].data # <<>>

other_employees(h, analyzer, quadrant_name) ==
    IF ~HasData(h, analyzer) THEN <<>>
    ELSE SelectSeq(h[analyzer].data, LAMBDA emp : emp.quadrant # quadrant_name)
get_employees_by_quadrant(h, analyzer, quadrant_name) ==
    IF ~HasData(h, analyzer) THEN <<>>
    ELSE SelectSeq(h[analyzer].data, LAMBDA emp : emp.quadrant = quadrant_name)

\* one table row per employee, or the "none found" notice
display_employees(employees) ==
    IF employees = <<>>
    THEN [notice |-> "No employees found in this category.", rows |-> <<>>]
    ELSE [notice |-> "",
          rows |-> [i \in DOMAIN employees |->
                      [id |-> employees[i].id, role |-> employees[i].role,
                       sentiment |-> employees[i].sentiment_score,
                       content |-> employees[i].content]]]

\* seq[:n]
whole_list(seq, n) == seq
slice_to(seq, n) == SubSeq(seq, 1, Min(n, Len(seq)))

record_line(emp) ==
    [name |-> emp.employee_name, role |-> emp.role,
     score |-> emp.sentiment_score, quadrant |-> emp.quadrant]

build_context(data) ==
    LET summary == get_analytics_summary(data)
        sample == slice_to(data, ContextLimit)
    IN  [total_employees |-> summary.total_employees,
         average_sentiment |-> summary.average_sentiment,
         quadrant_info |-> summary.quadrant_distribution,
         role_info |-> summary.sentiment_by_role,
         lines |-> [i \in DOMAIN sample |-> record_line(sample[i])]]

show_environment_status(analyzer) ==
    IF analyzer # 0 THEN "Environment configured"
    ELSE "Analyzer not initialized"

(***************************************************************************)
(* The free-text router of ai_analysis_interface.                          *)
(***************************************************************************)
quadrant_keywords ==
    <<[kw |-> <<"c","h","a","m","p","i","o","n">>, quad |-> "Champion"],
      [kw |-> <<"a","t"," ","r","i","s","k">>, quad |-> "At Risk"],
      [kw |-> <<"c","o","n","c","e","r","n","e","d">>,
       quad |-> "Concerned but active"],
      [kw |-> <<"i","s","o","l","a","t","e","d">>,
       quad |-> "Potentially Isolated"]>>

keyword_matches(i, query) ==
    Contains(lower(quadrant_keywords[i].kw), lower(query))

\* the keywords whose table the loop renders, in rendering order
RECURSIVE scan_all(_, _)
scan_all(i, query) ==
    IF i > Len(quadrant_keywords) THEN <<>>
    ELSE IF keyword_matches(i, query) THEN <<i>> \o scan_all(i + 1, query)
    ELSE scan_all(i + 1, query)

RECURSIVE scan_until_break(_, _)
scan_until_break(i, query) ==
    IF i > Len(quadrant_keywords) THEN <<>>
    ELSE IF keyword_matches(i, query) THEN <<i>>
    ELSE scan_until_break(i + 1, query)

scan_without_break(query) == scan_all(1, query)
scan_keywords(query) == scan_until_break(1, query)

quadrant_table(h, analyzer, quad) ==
    LET employees == get_employees_by_quadrant(h, analyzer, quad)
    IN  [quad |-> quad, count |-> Len(employees), employees |-> employees,
         shown |-> display_employees(employees)]

(***************************************************************************)
(* One AI call site: analyze_with_ai, extract_ai_text, the result area.    *)
(***************************************************************************)
EngagementQuery ==
    <<"What is the overall employee engagement status and key factors affecting it?">>
RetentionQuery ==
    <<"What factors might affect employee retention and what are your recommendations?">>

NoAI ==
    [calls |-> <<>>, result |-> PyNone, widget |-> "none", template |-> "",
     text |-> "", raised |-> FALSE]

ai_calls(query, context) == <<[query |-> query, context |-> context]>>

\* the result area after a call that returned
result_area(query, context, result) ==
    IF Truthy(result)
    THEN [calls |-> ai_calls(query, context), result |-> result,
          widget |-> "markdown", template |-> "", text |-> result.s,
          raised |-> FALSE]
    ELSE [calls |-> ai_calls(query, context), result |-> result,
          widget |-> "error", template |-> "AI analysis returned no content.",
          text |-> "", raised |-> FALSE]

ai_call_uncaught(query, context, outcome) ==
    IF outcome.raises
    THEN [calls |-> ai_calls(query, context), result |-> PyNone,
          widget |-> "none", template |-> "", text |-> "", raised |-> TRUE]
    ELSE result_area(query, context, extract_ai_text(outcome.response))

\* try: analyze_with_ai; extract_ai_text; render / except: render the fault
ai_call_site(query, context, outcome) ==
    IF outcome.raises
    THEN [calls |-> ai_calls(query, context), result |-> PyNone,
          widget |-> "error", template |-> "AI analysis failed: ",
          text |-> outcome.fault, raised |-> FALSE]
    ELSE result_area(query, context, extract_ai_text(outcome.response))

(***************************************************************************)
(* The three views.                                                        *)
(***************************************************************************)
\* the metrics row at the top of data_management_section
data_metrics(h, analyzer) ==
    IF HasData(h, analyzer)
    THEN [records_loaded |-> Len(h[analyzer].data),
          average_sentiment |-> get_average_sentiment(h[analyzer].data),
          at_risk |-> DictGet(get_quadrant_distribution(h[analyzer].data),
                              "At Risk", 0)]
    ELSE [records_loaded |-> 0, average_sentiment |-> 0, at_risk |-> 0]

analytics_dashboard(h, analyzer) ==
    IF ~HasData(h, analyzer)
    THEN [view |-> "placeholder", summary_calls |-> 0, metrics |-> <<>>]
    ELSE LET summary == get_analytics_summary(h[analyzer].data)
         IN  [view |-> "dashboard", summary_calls |-> 1,
              metrics |->
                <<[total_employees |-> summary.total_employees,
                   average_sentiment |-> summary.average_sentiment,
                   label |-> IF summary.average_sentiment > 60
                             THEN "Healthy" ELSE "Needs Attention",
                   champions |->
                       DictGet(summary.quadrant_distribution, "Champion", 0),
                   at_risk |->
                       DictGet(summary.quadrant_distribution, "At Risk", 0)]>>]

ai_analysis_interface(h, analyzer, trigger, query, outcome) ==
    IF ~HasData(h, analyzer)
    THEN [view |-> "placeholder", summary_calls |-> 0, context |-> <<>>,
          tables |-> <<>>, ai |-> NoAI]
    ELSE
      LET context == build_context(h[analyzer].data)
          hits == scan_keywords(query)
          shown == [view |-> "interface", summary_calls |-> 1,
                    context |-> <<context>>, tables |-> <<>>, ai |-> NoAI]
      IN  CASE trigger = "champions" ->
                 [shown EXCEPT !.tables =
                     <<quadrant_table(h, analyzer, "Champion")>>]
            [] trigger = "at_risk" ->
                 [shown EXCEPT !.tables =
                     <<quadrant_table(h, analyzer, "At Risk")>>]
            [] trigger = "engagement" ->
                 [shown EXCEPT !.ai =
                     ai_call_site(EngagementQuery, context, outcome)]
            [] trigger = "retention" ->
                 [shown EXCEPT !.ai =
                     ai_call_site(RetentionQuery, context, outcome)]
            [] trigger = "analyze" /\ query # <<>> /\ hits # <<>> ->
                 [shown EXCEPT !.tables =
                     [k \in DOMAIN hits |->
                        quadrant_table(h, analyzer,
                                       quadrant_keywords[hits[k]].quad)]]
            [] trigger = "analyze" /\ query # <<>> /\ hits = <<>> ->
                 [shown EXCEPT !.ai = ai_call_site(query, context, outcome)]
            [] OTHER -> shown

NoOutcome == [raises |-> FALSE, fault |-> "", response |-> PyNone]

\* one pass of main() below the session initialisation
script_run(s, h, analyzer, trigger, sidebar, notice, query, outcome) ==
    [session |-> s, trigger |-> trigger, query |-> query,
     sidebar |-> sidebar, outcome |-> outcome,
     status |-> show_environment_status(analyzer),
     data_management |-> [metrics |-> data_metrics(h, analyzer),
                          notice |-> notice],
     dashboard |-> analytics_dashboard(h, analyzer),
     ai_tab |-> ai_analysis_interface(h, analyzer, trigger, query, outcome)]

(***************************************************************************)
(* Query texts typed into the text area.                                   *)
(***************************************************************************)
Fragments ==
    {<<"C","h","a","m","p","i","o","n","s"," ">>,
     <<"a","t"," ","R","i","s","k"," ">>,
     <<"a","t","-","r","i","s","k"," ">>,
     <<"c","o","n","c","e","r","n","e","d"," ">>,
     <<"I","S","O","L","A","T","E","D"," ">>}

RECURSIVE QueriesUpTo(_)
QueriesUpTo(n) ==
    IF n = 0 THEN {<<>>}
    ELSE LET shorter == QueriesUpTo(n - 1)
         IN  shorter \cup {q \o f : q \in shorter, f \in Fragments}

AllQueries == QueriesUpTo(MaxFrags)
SmallQueries ==
    {<<"C","h","a","m","p","i","o","n","s"," ">>,
     <<"a","t"," ","R","i","s","k"," ">>,
     <<"h","i"," ">>}

QuadrantQueries ==
    SmallQueries
    \cup {<<"c","o","n","c","e","r","n","e","d"," ">>,
          <<"I","S","O","L","A","T","E","D"," ">>}

(***************************************************************************)
(* Session initialisation: initialize_analyzer behind st.cache_resource.   *)
(***************************************************************************)
\* the body of initialize_analyzer, for a fresh HRAnalyzer `id`
initialize_empty_as_failure(id, outcome) ==
    IF outcome.kind = "true"
    THEN [analyzer |-> id, loaded |-> TRUE,
          message |-> "Data loaded from MySQL successfully"]
    ELSE IF outcome.kind = "false"
    THEN [analyzer |-> 0, loaded |-> FALSE,
          message |-> "No data found in MySQL database"]
    ELSE [analyzer |-> 0, loaded |-> FALSE, message |-> "Failed to initialize"]

initialize_analyzer(id, outcome) ==
    IF outcome.kind = "true"
    THEN [analyzer |-> id, loaded |-> TRUE,
          message |-> "Data loaded from MySQL successfully"]
    ELSE IF outcome.kind = "false"
    THEN [analyzer |-> id, loaded |-> FALSE,
          message |-> "No data found in MySQL database"]
    ELSE [analyzer |-> 0, loaded |-> FALSE, message |-> "Failed to initialize"]

NoEntry == [analyzer |-> 0, loaded |-> FALSE, message |-> ""]

\* st.cache_resource: the first call runs the function and stores what it
\* returned; every later call, from any session, gets the stored value
cached_call(c, id, outcome) ==
    IF c.filled THEN c.value ELSE initialize_analyzer(id, outcome)

NoSession == [present |-> FALSE, analyzer |-> 0, data_loaded |-> FALSE]

Init ==
    /\ cache = [filled |-> FALSE, value |-> NoEntry]
    /\ heap = <<>>
    /\ sess = [s \in Sessions |-> NoSession]
    /\ screen = [s \in Sessions |-> "closed"]
    /\ run = script_run(0, <<>>, 0, "none", "", "", <<>>, NoOutcome)

(***************************************************************************)
(* Script runs.                                                            *)
(***************************************************************************)
\* main() of a session whose session_state has no 'analyzer' yet
Open(s, D) ==
    /\ ~sess[s].present
    /\ \E outcome \in LoadOutcomes(D) :
         LET id == Len(heap) + 1
             entry == cached_call(cache, id, outcome)
             h == IF cache.filled \/ entry.analyzer = 0 THEN heap
                  ELSE Append(heap, [data |-> load_data(<<>>, outcome)])
         IN  /\ cache' = [filled |-> TRUE, value |-> entry]
             /\ heap' = h
             /\ sess' = [sess EXCEPT ![s] =
                            [present |-> TRUE, analyzer |-> entry.analyzer,
                             data_loaded |-> entry.loaded]]
             /\ run' = script_run(s, h, entry.analyzer, "open", entry.message,
                                  "", <<>>, NoOutcome)
             /\ screen' = [screen EXCEPT ![s] = run'.ai_tab.view]

\* a run of main() with the session initialised and the given widget fired
Interact(s, trigger, query, outcome) ==
    /\ sess[s].present
    /\ run' = script_run(s, heap, sess[s].analyzer, trigger, "", "",
                         query, outcome)
    /\ screen' = [screen EXCEPT ![s] = run'.ai_tab.view]
    /\ UNCHANGED <<cache, heap, sess>>

Refresh(s) == Interact(s, "rerun", <<>>, NoOutcome)

\* session_state.data_loaded after the reload button's handler
flag_follows_reload(old, outcome) == outcome.kind = "true"
reload_flag(old, outcome) == IF outcome.kind = "true" THEN TRUE ELSE old

reload_notice(analyzer, outcome) ==
    IF analyzer = 0 THEN "Analyzer not initialized"
    ELSE IF outcome.kind = "true" THEN "Data reloaded successfully from MySQL!"
    ELSE IF outcome.kind = "false"
    THEN "No data returned from MySQL or reload failed."
    ELSE "Failed to reload"

\* the "Reload Data" button; on success st.rerun() restarts the script, so
\* everything below the button is rendered from the reloaded state
ReloadData(s, D) ==
    /\ sess[s].present
    /\ \E outcome \in LoadOutcomes(D) :
         LET analyzer == sess[s].analyzer
             h == IF analyzer = 0 THEN heap
                  ELSE [heap EXCEPT ![analyzer].data = load_data(@, outcome)]
         IN  /\ heap' = h
             /\ sess' = [sess EXCEPT ![s].data_loaded =
                            IF analyzer = 0 THEN @ ELSE reload_flag(@, outcome)]
             /\ run' = script_run(s, h, analyzer, "reload", "",
                                  reload_notice(analyzer, outcome),
                                  <<>>, NoOutcome)
             /\ screen' = [screen EXCEPT ![s] = run'.ai_tab.view]
             /\ UNCHANGED cache

ShowChampions(s) ==
    /\ screen[s] = "interface"
    /\ Interact(s, "champions", <<>>, NoOutcome)

ShowAtRisk(s) ==
    /\ screen[s] = "interface"
    /\ Interact(s, "at_risk", <<>>, NoOutcome)

EngagementSummary(s, R) ==
    /\ screen[s] = "interface"
    /\ \E outcome \in AIOutcomes(R) : Interact(s, "engagement", <<>>, outcome)

RetentionInsights(s, R) ==
    /\ screen[s] = "interface"
    /\ \E outcome \in AIOutcomes(R) : Interact(s, "retention", <<>>, outcome)

\* the "Analyze" button exists only while the text area is non-empty
Analyze(s, Q, R) ==
    /\ screen[s] = "interface"
    /\ \E query \in Q \ {<<>>} :
         \* analyze_with_ai is reached only when no keyword matched
         \E outcome \in (IF scan_keywords(query) = <<>>
                         THEN AIOutcomes(R) ELSE {NoOutcome}) :
            Interact(s, "analyze", query, outcome)

Next ==
    \E s \in Sessions :
        \/ Open(s, SmallData)
        \/ Refresh(s)
        \/ ReloadData(s, SmallData)
        \/ ShowChampions(s)
        \/ ShowAtRisk(s)
        \/ EngagementSummary(s, SmallResponses)
        \/ RetentionInsights(s, SmallResponses)
        \/ Analyze(s, SmallQueries, SmallResponses)

Spec == Init /\ [][Next]_vars

\* one session, every query text and every response shape
NextQuery ==
    \/ Open(1, TinyData)
    \/ Refresh(1)
    \/ ReloadData(1, TinyData)
    \/ ShowChampions(1)
    \/ ShowAtRisk(1)
    \/ EngagementSummary(1, AllResponses)
    \/ RetentionInsights(1, AllResponses)
    \/ Analyze(1, AllQueries, SmallResponses)

SpecQuery == Init /\ [][NextQuery]_vars

\* one session, every record set
NextData ==
    \/ Open(1, AllData)
    \/ Refresh(1)
    \/ ReloadData(1, AllData)
    \/ ShowChampions(1)
    \/ ShowAtRisk(1)
    \/ EngagementSummary(1, TinyResponses)
    \/ RetentionInsights(1, TinyResponses)
    \/ Analyze(1, QuadrantQueries, TinyResponses)

SpecData == Init /\ [][NextData]_vars

(***************************************************************************)
(* Properties.  `run` is the latest script run, so a state predicate over  *)
(* `run` speaks about the state right after that run.                      *)
(***************************************************************************)
Acting == sess[run.session]
ActingData ==
    IF Acting.analyzer = 0 THEN <<>> ELSE heap[Acting.analyzer].data

ReloadFailureNotices ==
    {"No data returned from MySQL or reload failed.", "Failed to reload"}

\* C1: a reload whose load_data() returns failure/empty or raises, in a
\* session holding an analyzer with loaded records, changes neither the
\* record set nor the session's load flag, and the views still report the
\* same record count.
C1_ReloadFailureKeepsState ==
    [][\A s \in Sessions :
          (/\ run'.session = s
           /\ run'.trigger = "reload"
           /\ run'.data_management.notice \in ReloadFailureNotices
           /\ sess[s].analyzer # 0
           /\ heap[sess[s].analyzer].data # <<>>)
          => /\ heap' = heap
             /\ sess' = sess
             /\ run'.data_management.metrics.records_loaded
                    = Len(heap[sess[s].analyzer].data)
             /\ run'.dashboard.metrics[1].total_employees
                    = Len(heap[sess[s].analyzer].data)]_vars

C1_Witness ==
    /\ run.trigger = "reload"
    /\ run.data_management.notice \in ReloadFailureNotices
    /\ Acting.data_loaded
    /\ run.data_management.metrics.records_loaded = 2

\* C2: every session that holds an analyzer holds one of its own: no two
\* sessions share an analyzer instance (and with it a record set).
C2_SessionsOwnTheirAnalyzer ==
    \A s, t \in Sessions :
        (s # t /\ sess[s].analyzer # 0 /\ sess[t].analyzer # 0)
        => sess[s].analyzer # sess[t].analyzer

\* C9: initialisation stores (analyzer, TRUE) after a successful load,
\* (analyzer, FALSE) after an empty one and (None, FALSE) after a failure;
\* the status panel shows the empty case as configured and the failed one as
\* not initialised; after a failed initialisation every run renders the
\* placeholders and the "not initialised" notices, and nothing is raised.
C9_InitOutcomes ==
    /\ run.trigger = "open" =>
          /\ run.sidebar = "Data loaded from MySQL successfully"
                => Acting.analyzer # 0 /\ Acting.data_loaded
          /\ run.sidebar = "No data found in MySQL database"
                => /\ Acting.analyzer # 0 /\ ~Acting.data_loaded
                   /\ run.status = "Environment configured"
          /\ run.sidebar = "Failed to initialize"
                => /\ Acting.analyzer = 0 /\ ~Acting.data_loaded
                   /\ run.status = "Analyzer not initialized"
          /\ run.sidebar # ""
    /\ (run.session # 0 /\ Acting.analyzer = 0) =>
          /\ run.status = "Analyzer not initialized"
          /\ run.dashboard.view = "placeholder"
          /\ run.ai_tab.view = "placeholder"
          /\ ~run.ai_tab.ai.raised
          /\ run.trigger = "reload"
                => run.data_management.notice = "Analyzer not initialized"
          /\ ~Acting.data_loaded

C9_Witness ==
    /\ run.trigger = "reload"
    /\ Acting.present /\ Acting.analyzer = 0 /\ ~Acting.data_loaded
    /\ run.data_management.notice = "Analyzer not initialized"
    /\ run.ai_tab.view = "placeholder"

\* C10: the dashboard and the AI view call get_analytics_summary and
\* analyze_with_ai only for a session whose analyzer exists and has records;
\* otherwise both show the placeholder and make no call.
C10_DataPresenceGuard ==
    run.session # 0 =>
        LET present == Acting.analyzer # 0 /\ ActingData # <<>>
            summaries == run.dashboard.summary_calls + run.ai_tab.summary_calls
            calls == Len(run.ai_tab.ai.calls)
        IN  /\ (summaries > 0 \/ calls > 0) => present
            /\ ~present => /\ run.dashboard.view = "placeholder"
                           /\ run.ai_tab.view = "placeholder"
                           /\ summaries = 0 /\ calls = 0
                           /\ run.ai_tab.tables = <<>>
            /\ present => /\ run.dashboard.view = "dashboard"
                          /\ run.ai_tab.view = "interface"

C10_Witness ==
    /\ run.trigger = "reload"
    /\ Acting.analyzer # 0 /\ ActingData = <<>>
    /\ run.dashboard.view = "placeholder"
    /\ run.ai_tab.view = "placeholder"

(***************************************************************************)
(* The free-text router and the AI call sites.                             *)
(***************************************************************************)
\* the keywords contained in the lower-cased query, by declaration index
MatchedKeywords(query) ==
    LET lowered == [i \in DOMAIN query |-> LowerChar(query[i])]
    IN  {k \in DOMAIN quadrant_keywords :
            Contains(quadrant_keywords[k].kw, lowered)}

SetMin(S) == CHOOSE m \in S : \A n \in S : m <= n

\* the positions of the records of one quadrant, and the j-th of them
QuadrantIndexes(data, quad) == {i \in DOMAIN data : data[i].quadrant = quad}
NthIndex(S, j) == CHOOSE i \in S : Cardinality({m \in S : m < i}) = j - 1

\* `employees` is exactly the records of `quad`, in load order
IsQuadrantFilter(employees, data, quad) ==
    /\ Len(employees) = Cardinality(QuadrantIndexes(data, quad))
    /\ \A j \in DOMAIN employees :
          employees[j] = data[NthIndex(QuadrantIndexes(data, quad), j)]

\* C3: a submitted query whose lower-cased text contains a keyword renders
\* the filtered table of a matching keyword's quadrant and calls the AI
\* operation zero times; a submitted query containing no keyword calls it
\* exactly once, with the raw query and the built context.
C3_KeywordRouting ==
    run.trigger = "analyze" =>
        LET matched == MatchedKeywords(run.query)
            tab == run.ai_tab
        IN  /\ matched # {} =>
                 /\ tab.ai.calls = <<>>
                 /\ tab.tables # <<>>
                 /\ \A k \in DOMAIN tab.tables :
                       /\ \E m \in matched :
                             tab.tables[k].quad = quadrant_keywords[m].quad
                       /\ IsQuadrantFilter(tab.tables[k].employees, ActingData,
                                           tab.tables[k].quad)
            /\ matched = {} =>
                 /\ tab.tables = <<>>
                 /\ Len(tab.ai.calls) = 1
                 /\ tab.ai.calls[1].query = run.query
                 /\ tab.context # <<>>
                 /\ tab.ai.calls[1].context = tab.context[1]

C3_Witness ==
    /\ run.trigger = "analyze"
    /\ run.query = <<"a","t"," ","R","i","s","k"," ">>
    /\ run.ai_tab.ai.calls = <<>>
    /\ Len(run.ai_tab.tables) = 1
    /\ run.ai_tab.tables[1].quad = "At Risk"

\* shapes of a response object
ChainRaises(r) ==
    r.has_candidates /\ r.candidates # <<>> /\ ~r.candidates[1].content_ok
UsableCandidate(r) ==
    /\ r.has_candidates /\ r.candidates # <<>>
    /\ r.candidates[1].content_ok
    /\ r.candidates[1].parts # <<>>
    /\ r.candidates[1].parts[1].has_text

\* the unwrapping rule by response shape, required of `result` for the
\* response r whenever `scope` holds
UnwrapsAsClaimed(r, result, scope) ==
    /\ (r.kind = "str" /\ scope) => result = r
    /\ (r.kind = "obj" /\ scope) =>
          /\ (UsableCandidate(r) /\ r.text_attr = "missing")
                => result = PyStr(r.candidates[1].parts[1].text)
          /\ (~UsableCandidate(r) /\ ~ChainRaises(r) /\ r.text_attr = "value")
                => result = PyStr(r.text)
          /\ (~UsableCandidate(r) /\ ~ChainRaises(r) /\ r.text_attr = "missing")
                => result = PyNone
          /\ ChainRaises(r)
                => result = PyStr("Extraction failed: " \o "AttributeError")
          /\ (~UsableCandidate(r) /\ ~ChainRaises(r) /\ r.text_attr = "raises")
                => result = PyStr("Extraction failed: " \o "ValueError")

\* `not response`, spelled out
IsFalsyValue(r) ==
    r = PyNone \/ r = PyStr("") \/ (r.kind = "obj" /\ ~r.truthy)

AICallReturned == run.ai_tab.ai.calls # <<>> /\ ~run.outcome.raises

\* C4 as claimed: every plain text is returned unchanged, and every object
\* is unwrapped by its shape.
C4_UnwrapEveryValue ==
    AICallReturned =>
        UnwrapsAsClaimed(run.outcome.response, run.ai_tab.ai.result, TRUE)

\* C4 as amended: the claim for every truthy response value; a falsy value
\* (None, the empty text, a falsy object) yields None.
C4_UnwrapTruthyValues ==
    AICallReturned =>
        LET r == run.outcome.response
        IN  /\ UnwrapsAsClaimed(r, run.ai_tab.ai.result, ~IsFalsyValue(r))
            /\ IsFalsyValue(r) => run.ai_tab.ai.result = PyNone

C4_Witness ==
    /\ AICallReturned
    /\ run.outcome.response.kind = "obj"
    /\ run.outcome.response.text_attr = "missing"
    /\ Len(run.outcome.response.candidates) = 2
    /\ run.ai_tab.ai.result = PyStr("leaf")

\* C5: on each of the three AI call paths a raising call is rendered as the
\* "AI analysis failed" error of that result area and nothing propagates; a
\* call that returns without extractable text is rendered as the "returned
\* no content" error, a different notice.
C5_CallSiteOutcomes ==
    LET area == run.ai_tab.ai
    IN  /\ (run.trigger \in {"engagement", "retention"}
            \/ (run.trigger = "analyze" /\ MatchedKeywords(run.query) = {}))
           => Len(area.calls) = 1
        /\ area.calls # <<>> =>
             /\ ~area.raised
             /\ run.outcome.raises =>
                   /\ area.widget = "error"
                   /\ area.template = "AI analysis failed: "
                   /\ area.text = run.outcome.fault
             /\ (~run.outcome.raises
                 /\ ~Truthy(extract_ai_text(run.outcome.response))) =>
                   /\ area.widget = "error"
                   /\ area.template = "AI analysis returned no content."
             /\ (~run.outcome.raises
                 /\ Truthy(extract_ai_text(run.outcome.response))) =>
                   /\ area.widget = "markdown"
                   /\ area.text = extract_ai_text(run.outcome.response).s

C5_Witness ==
    /\ run.trigger = "analyze"
    /\ run.outcome.raises
    /\ run.ai_tab.ai.widget = "error"
    /\ run.ai_tab.ai.template = "AI analysis failed: "

\* C6: when a query contains several keywords, exactly one table is
\* rendered: that of the earliest-declared matching keyword.
C6_FirstDeclaredKeywordWins ==
    run.trigger = "analyze" =>
        LET matched == MatchedKeywords(run.query)
        IN  matched # {} =>
              /\ Len(run.ai_tab.tables) = 1
              /\ run.ai_tab.tables[1].quad
                    = quadrant_keywords[SetMin(matched)].quad

C6_Witness ==
    /\ run.trigger = "analyze"
    /\ run.query = <<"a","t"," ","R","i","s","k"," ">>
                   \o <<"C","h","a","m","p","i","o","n","s"," ">>
    /\ Len(run.ai_tab.tables) = 1
    /\ run.ai_tab.tables[1].quad = "Champion"

(***************************************************************************)
(* Quadrant filtering and the context builder.                             *)
(***************************************************************************)
\* C7: every rendered quadrant table holds exactly the records of its
\* quadrant, in load order; the Champion count equals the summary's
\* quadrant_distribution entry for "Champion"; without an analyzer or
\* without records the filter returns the empty list.
C7_QuadrantFilter ==
    /\ \A k \in DOMAIN run.ai_tab.tables :
          LET t == run.ai_tab.tables[k]
          IN  /\ IsQuadrantFilter(t.employees, ActingData, t.quad)
              /\ t.count = Len(t.employees)
              /\ t.quad = "Champion" =>
                    t.count = DictGet(
                        get_analytics_summary(ActingData).quadrant_distribution,
                        "Champion", 0)
    /\ \A s \in Sessions : \A k \in DOMAIN QuadrantNames :
          (sess[s].analyzer = 0 \/ heap[sess[s].analyzer].data = <<>>)
          => get_employees_by_quadrant(heap, sess[s].analyzer,
                                       QuadrantNames[k]) = <<>>

C7_Witness ==
    /\ run.trigger = "champions"
    /\ Len(run.ai_tab.tables) = 1
    /\ run.ai_tab.tables[1].count > 1
    /\ run.ai_tab.tables[1].count < Len(ActingData)
    /\ run.ai_tab.tables[1].employees[2].id = 8

\* C8: the context holds one line for each of the first min(n, 21) records,
\* in load order, and none for a later record; its header is the aggregate
\* summary of the record set.
C8_ContextSample ==
    run.ai_tab.context # <<>> =>
        LET context == run.ai_tab.context[1]
            n == Len(ActingData)
            summary == get_analytics_summary(ActingData)
        IN  /\ Len(context.lines) = (IF n < ContextLimit THEN n ELSE ContextLimit)
            /\ \A k \in DOMAIN context.lines :
                  context.lines[k] =
                      [name |-> ActingData[k].employee_name,
                       role |-> ActingData[k].role,
                       score |-> ActingData[k].sentiment_score,
                       quadrant |-> ActingData[k].quadrant]
            /\ context.total_employees = summary.total_employees
            /\ context.average_sentiment = summary.average_sentiment
            /\ context.quadrant_info = summary.quadrant_distribution
            /\ context.role_info = summary.sentiment_by_role

C8_Witness ==
    /\ run.ai_tab.context # <<>>
    /\ Len(ActingData) > ContextLimit
    /\ Len(run.ai_tab.context[1].lines) = ContextLimit
====
